---- MODULE Spec2Model ----
(***************************************************************************)
(* Model of majorProject.py: the GNSS road-type predictor.                 *)
(*                                                                         *)
(* Numbers.  The program computes in floating point; the model computes in *)
(* integers:                                                               *)
(*   - a coordinate is a cell <<lat, lon>> of a local grid whose rows are  *)
(*     500 m apart (north-south) and whose columns are 300 m apart         *)
(*     (east-west);                                                        *)
(*   - a timestamp is a whole number of seconds;                           *)
(*   - a distance is a whole number of metres (rounded down);              *)
(*   - a speed is a whole number of tenths of km/h (rounded down), so that *)
(*     200 km/h is 2000;                                                   *)
(*   - a heading or a turning angle is a whole number of degrees.          *)
(* geopy's geodesic, math.atan2 and scikit-learn are libraries, not code   *)
(* of the program: the model gives the first two an integer approximation  *)
(* and treats the fitted forest as an unknown deterministic function of a  *)
(* feature row.                                                            *)
(***************************************************************************)
EXTENDS Integers, Sequences, FiniteSets, TLC

VARIABLES
    pc,              \* position of the script / of the call
    fits,            \* number of times lines 74-77 fitted scaler and model
    scaler,          \* the StandardScaler object (line 74-75)
    model,           \* the RandomForestClassifier object (line 76-77)
    gnss_points,     \* the list of [lat, lon, timestamp] (lines 88-102)
    i,               \* loop variable of process_gnss_points (line 42)
    speeds,          \* line 41
    distances,       \* line 41
    headings,        \* line 41
    turning_angles,  \* line 41
    err,             \* the exception that ended the call, or "none"
    features_scaled, \* line 115
    predictions,     \* line 116
    labels,          \* "Predicted Road Type" column (lines 125-127)
    args,            \* arguments of a helper applied on its own
    result           \* <<>> before the helper returns, <<value>> after

vars == <<pc, fits, scaler, model, gnss_points, i, speeds, distances, headings,
          turning_angles, err, features_scaled, predictions, labels, args, result>>

----------------------------------------------------------------------------
(* Bounds of the model *)

MaxFixes == 3

MaxRuns == 2

MaxGrid == 3

MaxTick == 1

----------------------------------------------------------------------------
(* Constants of the program *)

MaxSpeedKmh == 200

MinPoints == 2

FullCircle == 360

HalfCircle == 180

----------------------------------------------------------------------------
(* Arithmetic helpers *)

Abs(x) == IF x < 0 THEN -x ELSE x

Min(a, b) == IF a <= b THEN a ELSE b

RECURSIVE IsqrtBetween(_, _, _)
\* the largest r in lo..hi with r*r <= n, given lo*lo <= n
IsqrtBetween(n, lo, hi) ==
    IF lo >= hi THEN lo
    ELSE LET mid == (lo + hi + 1) \div 2
         IN  IF mid * mid <= n THEN IsqrtBetween(n, mid, hi)
             ELSE IsqrtBetween(n, lo, mid - 1)

Isqrt(n) == IsqrtBetween(n, 0, Min(n, 46340))

RECURSIVE SumSeq(_)
SumSeq(s) == IF s = <<>> THEN 0 ELSE Head(s) + SumSeq(Tail(s))

RECURSIVE SumSquares(_)
SumSquares(s) == IF s = <<>> THEN 0 ELSE Head(s) * Head(s) + SumSquares(Tail(s))

----------------------------------------------------------------------------
(* geodesic(coord1, coord2).meters: distance on the local grid, in metres *)

North(coord1, coord2) == (coord2[1] - coord1[1]) * 500

East(coord1, coord2) == (coord2[2] - coord1[2]) * 300

geodesic(coord1, coord2) ==
    Isqrt(North(coord1, coord2) * North(coord1, coord2)
          + East(coord1, coord2) * East(coord1, coord2))

----------------------------------------------------------------------------
(* What a Python call gives back: a value, or an exception that propagates *)

Ret(v) == [raised |-> "none", value |-> v]

Raise(e) == [raised |-> e, value |-> 0]

----------------------------------------------------------------------------
(* calculate_speed, lines 13-16.  Tenths of km/h: metres * 3.6 * 10 / s. *)

calculate_speed_unguarded(coord1, coord2, time1, time2) ==
    LET distance == geodesic(coord1, coord2)
        time_diff == time2 - time1
    IN  IF time_diff = 0 THEN Raise("ZeroDivisionError")
        ELSE IF time_diff > 0 THEN Ret((distance * 36) \div time_diff)
        ELSE Ret(-((distance * 36) \div (-time_diff)))

calculate_speed(coord1, coord2, time1, time2) ==
    LET distance == geodesic(coord1, coord2)
        time_diff == time2 - time1
    IN  IF time_diff > 0 THEN Ret((distance * 36) \div time_diff) ELSE Ret(0)

----------------------------------------------------------------------------
(* math.degrees(math.atan2(x, y)): whole degrees in -180..180 *)

\* atan(a / b) in degrees for 0 <= a <= b, b > 0: r * (45 + 16 * (1 - r))
AtanDegrees(a, b) == (a * (45 * b + 16 * (b - a))) \div (b * b)

Atan2Degrees(x, y) ==
    IF x = 0 /\ y = 0 THEN 0
    ELSE LET ax == Abs(x)
             ay == Abs(y)
             fromAxis == IF ax <= ay THEN AtanDegrees(ax, ay)
                         ELSE 90 - AtanDegrees(ay, ax)
             unsigned == IF y >= 0 THEN fromAxis ELSE HalfCircle - fromAxis
         IN  IF x >= 0 THEN unsigned ELSE -unsigned

----------------------------------------------------------------------------
(* calculate_heading, lines 19-29.  On the grid x is the displacement east *)
(* (sin(dlon) * cos(lat2)) and y the displacement north.                   *)

calculate_heading_no_modulo(coord1, coord2) ==
    LET x == East(coord1, coord2)
        y == North(coord1, coord2)
        initial_bearing == Atan2Degrees(x, y)
    IN  initial_bearing + FullCircle

calculate_heading(coord1, coord2) ==
    LET x == East(coord1, coord2)
        y == North(coord1, coord2)
        initial_bearing == Atan2Degrees(x, y)
    IN  (initial_bearing + FullCircle) % FullCircle

----------------------------------------------------------------------------
(* calculate_turning_angle, lines 32-36 *)

calculate_turning_angle_no_abs(heading1, heading2) ==
    LET turning_angle == heading2 - heading1
    IN  ((turning_angle + HalfCircle) % FullCircle) - HalfCircle

calculate_turning_angle(heading1, heading2) ==
    LET turning_angle == heading2 - heading1
    IN  Abs(((turning_angle + HalfCircle) % FullCircle) - HalfCircle)

----------------------------------------------------------------------------
(* process_gnss_points, lines 39-59 *)

Coord(point) == <<point[1], point[2]>>

Time(point) == point[3]

\* lines 47-49, the speed in tenths of km/h
ValidateSpeedInclusive(speed) ==
    IF speed < 0 \/ speed >= MaxSpeedKmh * 10 THEN 0 ELSE speed

ValidateSpeedSentinel(speed) ==
    IF speed < 0 \/ speed > MaxSpeedKmh * 10 THEN -1 ELSE speed

ValidateSpeed(speed) ==
    IF speed < 0 \/ speed > MaxSpeedKmh * 10 THEN 0 ELSE speed

\* line 42: range(1, n) has no value left for the loop variable
RangeExhaustedLate(next, n) == next > n

RangeExhaustedEarly(next, n) == next + 1 >= n

RangeExhausted(next, n) == next >= n

\* lines 55-58; hs is headings after line 54 appended heading
TurningAngleEntryLast(index, hs, heading) ==
    IF index > 1 THEN calculate_turning_angle(hs[Len(hs)], heading) ELSE 0

TurningAngleEntry(index, hs, heading) ==
    IF index > 1 THEN calculate_turning_angle(hs[Len(hs) - 1], heading) ELSE 0

----------------------------------------------------------------------------
(* Training data, lines 63-68.  "distance" is written in tenths (2.0 is    *)
(* 20) so that the column stays whole.                                     *)

data_speed == <<45, 80, 30, 100, 50, 120, 20, 85, 55, 95, 25, 70>>

data_distance == <<20, 50, 15, 80, 35, 100, 12, 75, 30, 90, 25, 60>>

data_turning_angle == <<5, 0, 45, 0, 30, 0, 60, 10, 25, 0, 50, 5>>

data_road_type == <<0, 1, 0, 1, 0, 1, 0, 1, 0, 1, 0, 1>>

\* lines 72-73: the three feature columns, in the units of a feature row
\* (tenths of km/h, tenths of the distance unit, degrees), and the labels
X == << [k \in 1..Len(data_speed) |-> 10 * data_speed[k]],
        data_distance,
        data_turning_angle >>

y == data_road_type

----------------------------------------------------------------------------
(* StandardScaler, lines 74-75 and 115.  For a column with n values, sum s *)
(* and sum of squares q, (x - mean) / std = (n*x - s) / sqrt(n*q - s*s);   *)
(* root keeps the square root, transform gives thousandths.                *)

UnfittedScaler == [fitted |-> FALSE, n |-> 0, sum |-> <<0, 0, 0>>, root |-> <<0, 0, 0>>]

UnfittedModel == [fitted |-> FALSE, n |-> 0, n_estimators |-> 200, random_state |-> 42]

ScalerFit(cols) ==
    [fitted |-> TRUE,
     n      |-> Len(cols[1]),
     sum    |-> [c \in 1..3 |-> SumSeq(cols[c])],
     root   |-> [c \in 1..3 |->
                   Isqrt(Len(cols[c]) * SumSquares(cols[c])
                         - SumSeq(cols[c]) * SumSeq(cols[c]))]]

ScalerTransform(sc, row) ==
    [c \in 1..3 |-> (1000 * (sc.n * row[c] - sc.sum[c])) \div sc.root[c]]

\* RandomForestClassifier(n_estimators=200, random_state=42).fit, lines 76-77
ModelFit(cols, target) ==
    [fitted |-> TRUE, n |-> Len(target), n_estimators |-> 200, random_state |-> 42]

\* model.predict, line 116: one class per row; the forest is a function of
\* the row, so equal rows get equal classes
ModelPredict(m, rows) ==
    {p \in [1..Len(rows) -> {0, 1}] :
        \A j, k \in 1..Len(rows) : rows[j] = rows[k] => p[j] = p[k]}

\* lines 125-127
RoadLabelInverted(p) == IF p = 0 THEN "Highway" ELSE "Service Road"

RoadLabel(p) == IF p = 1 THEN "Highway" ELSE "Service Road"

----------------------------------------------------------------------------
(* Inputs *)

\* timestamps (line 101): 9 s apart, so that one row of the grid (500 m) in
\* one tick is exactly 200 km/h
Timestamps == {9 * k : k \in 0..MaxTick}

\* what the sidebar can deliver for one point (lines 92-102): a cell of a
\* 2 x 2 block of the grid and a timestamp
SidebarPoints == {<<lat, lon, t>> : lat \in 0..1, lon \in 0..1, t \in Timestamps}

Lists(S, lo, hi) == UNION {[1..n -> S] : n \in lo..hi}

GridCoords == (0..MaxGrid) \X (0..MaxGrid)

Headings == 0..(FullCircle - 1)

----------------------------------------------------------------------------
(* The script, top to bottom *)

Fresh ==
    /\ scaler = UnfittedScaler
    /\ model = UnfittedModel
    /\ gnss_points = <<>>
    /\ i = 0
    /\ speeds = <<>>
    /\ distances = <<>>
    /\ headings = <<>>
    /\ turning_angles = <<>>
    /\ err = "none"
    /\ features_scaled = <<>>
    /\ predictions = <<>>
    /\ labels = <<>>
    /\ args = <<>>
    /\ result = <<>>

Init ==
    /\ pc = "train"
    /\ fits = 0
    /\ Fresh

\* lines 62-77
Train ==
    /\ pc = "train"
    /\ scaler' = ScalerFit(X)
    /\ model' = ModelFit(X, y)
    /\ fits' = fits + 1
    /\ pc' = "sidebar"
    /\ UNCHANGED <<gnss_points, i, speeds, distances, headings, turning_angles,
                   err, features_scaled, predictions, labels, args, result>>

\* lines 84-102: num_points is at least 2 (line 87)
SidebarInput ==
    /\ pc = "sidebar"
    /\ \E pts \in Lists(SidebarPoints, MinPoints, MaxFixes) : gnss_points' = pts
    /\ pc' = "call"
    /\ UNCHANGED <<fits, scaler, model, i, speeds, distances, headings,
                   turning_angles, err, features_scaled, predictions, labels,
                   args, result>>

\* lines 39-41 and the first value of range(1, ...)
process_gnss_points_enter ==
    /\ pc = "call"
    /\ speeds' = <<>>
    /\ distances' = <<>>
    /\ headings' = <<>>
    /\ turning_angles' = <<>>
    /\ i' = 1
    /\ pc' = "loop"
    /\ UNCHANGED <<fits, scaler, model, gnss_points, err, features_scaled,
                   predictions, labels, args, result>>

\* lines 42-58, one iteration.  Python's gnss_points[i - 1] and
\* gnss_points[i] are gnss_points[i] and gnss_points[i + 1] here.
process_gnss_points_step ==
    /\ pc = "loop"
    /\ ~RangeExhausted(i, Len(gnss_points))
    /\ IF i + 1 > Len(gnss_points)
       THEN /\ err' = "IndexError"
            /\ pc' = "raised"
            /\ UNCHANGED <<i, speeds, distances, headings, turning_angles>>
       ELSE LET coord1 == Coord(gnss_points[i])
                coord2 == Coord(gnss_points[i + 1])
                time1 == Time(gnss_points[i])
                time2 == Time(gnss_points[i + 1])
                speed == calculate_speed(coord1, coord2, time1, time2)
                heading == calculate_heading(coord1, coord2)
            IN  IF speed.raised # "none"
                THEN /\ err' = speed.raised
                     /\ pc' = "raised"
                     /\ UNCHANGED <<i, speeds, distances, headings, turning_angles>>
                ELSE /\ speeds' = Append(speeds, ValidateSpeed(speed.value))
                     /\ distances' = Append(distances, geodesic(coord1, coord2))
                     /\ headings' = Append(headings, heading)
                     /\ turning_angles' =
                            Append(turning_angles,
                                   TurningAngleEntry(i, Append(headings, heading), heading))
                     /\ i' = i + 1
                     /\ pc' = "loop"
                     /\ err' = err
    /\ UNCHANGED <<fits, scaler, model, gnss_points, features_scaled, predictions,
                   labels, args, result>>

\* line 59
process_gnss_points_return ==
    /\ pc = "loop"
    /\ RangeExhausted(i, Len(gnss_points))
    /\ pc' = "returned"
    /\ UNCHANGED <<fits, scaler, model, gnss_points, i, speeds, distances, headings,
                   turning_angles, err, features_scaled, predictions, labels, args,
                   result>>

\* line 108-114: row k of the features frame
FeatureRow(k) == <<speeds[k], 10 * distances[k], turning_angles[k]>>

\* lines 105-116 with fit_transform in place of transform
PredictRefit ==
    /\ pc = "returned"
    /\ LET rows == [k \in 1..Len(speeds) |-> ScalerTransform(scaler, FeatureRow(k))]
       IN  /\ features_scaled' = rows
           /\ \E p \in ModelPredict(model, rows) : predictions' = p
    /\ scaler' = ScalerFit(<< [k \in 1..Len(speeds) |-> FeatureRow(k)[1]],
                              [k \in 1..Len(speeds) |-> FeatureRow(k)[2]],
                              [k \in 1..Len(speeds) |-> FeatureRow(k)[3]] >>)
    /\ fits' = fits + 1
    /\ pc' = "predicted"
    /\ UNCHANGED <<model, gnss_points, i, speeds, distances, headings,
                   turning_angles, err, labels, args, result>>

\* lines 105-116
Predict ==
    /\ pc = "returned"
    /\ LET rows == [k \in 1..Len(speeds) |-> ScalerTransform(scaler, FeatureRow(k))]
       IN  /\ features_scaled' = rows
           /\ \E p \in ModelPredict(model, rows) : predictions' = p
    /\ pc' = "predicted"
    /\ UNCHANGED <<fits, scaler, model, gnss_points, i, speeds, distances, headings,
                   turning_angles, err, labels, args, result>>

\* lines 118-160: the results table (the map is drawing only)
Render ==
    /\ pc = "predicted"
    /\ labels' = [k \in 1..Len(predictions) |-> RoadLabel(predictions[k])]
    /\ pc' = "done"
    /\ UNCHANGED <<fits, scaler, model, gnss_points, i, speeds, distances, headings,
                   turning_angles, err, features_scaled, predictions, args, result>>

\* Streamlit runs the script again, top to bottom and in the same process,
\* whenever a widget changes
Rerun ==
    /\ pc = "done"
    /\ fits < MaxRuns
    /\ pc' = "train"
    /\ scaler' = UnfittedScaler
    /\ model' = UnfittedModel
    /\ gnss_points' = <<>>
    /\ i' = 0
    /\ speeds' = <<>>
    /\ distances' = <<>>
    /\ headings' = <<>>
    /\ turning_angles' = <<>>
    /\ err' = "none"
    /\ features_scaled' = <<>>
    /\ predictions' = <<>>
    /\ labels' = <<>>
    /\ UNCHANGED <<fits, args, result>>

Next ==
    \/ Train
    \/ SidebarInput
    \/ process_gnss_points_enter
    \/ process_gnss_points_step
    \/ process_gnss_points_return
    \/ Predict
    \/ Render
    \/ Rerun

Spec == Init /\ [][Next]_vars

----------------------------------------------------------------------------
(* process_gnss_points called on its own, with any list of fixes *)

InitCall ==
    /\ pc = "call"
    /\ fits = 0
    /\ scaler = UnfittedScaler
    /\ model = UnfittedModel
    /\ gnss_points \in Lists(SidebarPoints, 0, MaxFixes)
    /\ i = 0
    /\ speeds = <<>>
    /\ distances = <<>>
    /\ headings = <<>>
    /\ turning_angles = <<>>
    /\ err = "none"
    /\ features_scaled = <<>>
    /\ predictions = <<>>
    /\ labels = <<>>
    /\ args = <<>>
    /\ result = <<>>

NextCall ==
    \/ process_gnss_points_enter
    \/ process_gnss_points_step
    \/ process_gnss_points_return

SpecCall == InitCall /\ [][NextCall]_vars

----------------------------------------------------------------------------
(* calculate_turning_angle and calculate_heading applied on their own *)

Idle ==
    /\ fits = 0
    /\ scaler = UnfittedScaler
    /\ model = UnfittedModel
    /\ gnss_points = <<>>
    /\ i = 0
    /\ speeds = <<>>
    /\ distances = <<>>
    /\ headings = <<>>
    /\ turning_angles = <<>>
    /\ err = "none"
    /\ features_scaled = <<>>
    /\ predictions = <<>>
    /\ labels = <<>>

InitTurn ==
    /\ pc = "turning_angle"
    /\ args \in Headings \X Headings
    /\ result = <<>>
    /\ Idle

ApplyTurningAngle ==
    /\ pc = "turning_angle"
    /\ result' = <<calculate_turning_angle(args[1], args[2])>>
    /\ pc' = "applied_turning_angle"
    /\ UNCHANGED <<fits, scaler, model, gnss_points, i, speeds, distances, headings,
                   turning_angles, err, features_scaled, predictions, labels, args>>

SpecTurn == InitTurn /\ [][ApplyTurningAngle]_vars

InitHeading ==
    /\ pc = "heading"
    /\ args \in GridCoords \X GridCoords
    /\ result = <<>>
    /\ Idle

ApplyHeading ==
    /\ pc = "heading"
    /\ result' = <<calculate_heading(args[1], args[2])>>
    /\ pc' = "applied_heading"
    /\ UNCHANGED <<fits, scaler, model, gnss_points, i, speeds, distances, headings,
                   turning_angles, err, features_scaled, predictions, labels, args>>

SpecHeading == InitHeading /\ [][ApplyHeading]_vars

----------------------------------------------------------------------------
(* The claims *)

\* fixes k and k + 1 of the input, 1 <= k < Len(gnss_points)
FixA(k) == gnss_points[k]

FixB(k) == gnss_points[k + 1]

RawSpeed(k) == calculate_speed(Coord(FixA(k)), Coord(FixB(k)), Time(FixA(k)), Time(FixB(k)))

PairDistance(k) == geodesic(Coord(FixA(k)), Coord(FixB(k)))

PairHeading(k) == calculate_heading(Coord(FixA(k)), Coord(FixB(k)))

AllLengths(n) ==
    /\ Len(speeds) = n
    /\ Len(distances) = n
    /\ Len(headings) = n
    /\ Len(turning_angles) = n

\* C1: for a list of N >= 2 fixes process_gnss_points returns (it does not
\* raise) and each of speeds, distances, headings and turning_angles has
\* exactly N - 1 entries, entry k being computed from fixes k and k + 1 in
\* input order.
C1_SegmentCount ==
    Len(gnss_points) >= 2 =>
        /\ pc # "raised"
        /\ pc = "returned" =>
              /\ AllLengths(Len(gnss_points) - 1)
              /\ \A k \in 1..(Len(gnss_points) - 1) :
                    /\ distances[k] = PairDistance(k)
                    /\ headings[k] = PairHeading(k)
                    /\ speeds[k] \in {0, RawSpeed(k).value}

C1_Witness ==
    /\ pc = "returned"
    /\ Len(gnss_points) = 3
    /\ AllLengths(2)
    /\ distances[1] # distances[2]
    /\ headings[1] # headings[2]

\* C2: the speed entry of a pair is 0 when the raw speed of calculate_speed
\* is below 0 or above 200 km/h and is the raw speed otherwise (exactly 0
\* and exactly 200 included); every emitted speed lies in [0, 200].
C2_SpeedClamp ==
    pc \in {"loop", "returned"} =>
        \A k \in 1..Len(speeds) :
            LET raw == RawSpeed(k).value
            IN  /\ (raw < 0 \/ raw > MaxSpeedKmh * 10) => speeds[k] = 0
                /\ (raw >= 0 /\ raw <= MaxSpeedKmh * 10) => speeds[k] = raw
                /\ speeds[k] >= 0
                /\ speeds[k] <= MaxSpeedKmh * 10

C2_Witness ==
    /\ pc = "returned"
    /\ Len(speeds) = 2
    /\ RawSpeed(1).value > MaxSpeedKmh * 10
    /\ speeds[1] = 0
    /\ distances[1] > 0

\* C3: for a pair whose second timestamp is equal to or earlier than the
\* first, calculate_speed returns 0 and raises nothing; the call never
\* raises, the pair still has its distance, heading and turning angle, and
\* the later pairs are processed.
C3_NonIncreasingTime ==
    /\ pc # "raised"
    /\ err = "none"
    /\ pc = "returned" =>
          \A k \in 1..(Len(gnss_points) - 1) :
              Time(FixB(k)) <= Time(FixA(k)) =>
                  /\ RawSpeed(k) = Ret(0)
                  /\ AllLengths(Len(gnss_points) - 1)
                  /\ speeds[k] = 0
                  /\ distances[k] = PairDistance(k)
                  /\ headings[k] = PairHeading(k)

C3_Witness ==
    /\ pc = "returned"
    /\ Len(gnss_points) = 3
    /\ Time(FixB(1)) = Time(FixA(1))
    /\ distances[1] > 0
    /\ speeds[1] = 0
    /\ Len(speeds) = 2
    /\ Len(turning_angles) = 2

\* C4 as stated: given fewer than 2 fixes, process_gnss_points fails with
\* InsufficientData and returns no feature sequences.
C4_InsufficientData ==
    Len(gnss_points) < 2 => pc # "returned"

\* C4 as amended: given fewer than 2 fixes, process_gnss_points raises
\* nothing and returns four empty sequences.
C4_EmptyResult ==
    Len(gnss_points) < 2 =>
        /\ pc # "raised"
        /\ err = "none"
        /\ pc = "returned" => AllLengths(0)

C4_Witness ==
    /\ Len(gnss_points) = 1
    /\ pc = "returned"
    /\ speeds = <<>>
    /\ err = "none"

\* C5: for headings h1, h2 in [0, 360), calculate_turning_angle(h1, h2)
\* equals calculate_turning_angle(h2, h1), lies in [0, 180] and is the
\* minimal angular difference min(|h2 - h1|, 360 - |h2 - h1|).
C5_TurningAngle ==
    pc = "applied_turning_angle" =>
        LET d == Abs(args[2] - args[1])
        IN  /\ result[1] = calculate_turning_angle(args[2], args[1])
            /\ result[1] >= 0
            /\ result[1] <= 180
            /\ result[1] = Min(d, 360 - d)

C5_Witness ==
    /\ pc = "applied_turning_angle"
    /\ args = <<350, 10>>
    /\ result = <<20>>

\* C6: in the returned turning_angles the first entry is 0 and entry k >= 2
\* is calculate_turning_angle of the headings of segments k - 1 and k,
\* whether or not the speed of either segment was set to 0.
C6_TurningAngles ==
    (pc = "returned" /\ Len(gnss_points) >= 2) =>
        /\ turning_angles[1] = 0
        /\ \A k \in 2..(Len(gnss_points) - 1) :
              turning_angles[k] = calculate_turning_angle(PairHeading(k - 1), PairHeading(k))

C6_Witness ==
    /\ pc = "returned"
    /\ Len(gnss_points) = 3
    /\ turning_angles[1] = 0
    /\ turning_angles[2] > 0
    /\ RawSpeed(1).value > MaxSpeedKmh * 10
    /\ speeds[1] = 0

\* C7 as stated: scaler and model are fit exactly once in the process,
\* however many times the script is executed.
C7_FitOncePerProcess ==
    fits <= 1

\* C7 as amended: every execution of the script fits the scaler and the
\* model exactly once, from the embedded training set and before it
\* classifies; within an execution nothing after the fit changes them
\* (transform and predict only read them).
C7_FitOncePerRun ==
    [][ /\ fits' # fits => (pc = "train" /\ pc' = "sidebar" /\ fits' = fits + 1)
        /\ pc' = "sidebar" => (scaler' = ScalerFit(X) /\ model' = ModelFit(X, y))
        /\ (pc # "train" /\ pc' # "train") => (scaler' = scaler /\ model' = model)
        /\ pc = "returned" => (scaler.fitted /\ model.fitted /\ scaler.n = 12)
      ]_vars

C7_Witness ==
    /\ fits = 2
    /\ pc = "predicted"
    /\ Len(predictions) = 2

ThresholdLabel(speed) == IF speed > 60 * 10 THEN "Highway" ELSE "Service Road"

C9_HeadingRange ==
    pc = "applied_heading" => (result[1] >= 0 /\ result[1] < 360)

C9_Witness ==
    /\ pc = "applied_heading"
    /\ args[2][2] < args[1][2]
    /\ result[1] > 180
    /\ result[1] < 360

\* C10: every speed and every distance that process_gnss_points emits and
\* that is passed to scaler.transform / model.predict is >= 0.
C10_NonNegativeFeatures ==
    pc \in {"returned", "predicted", "done"} =>
        \A k \in 1..Len(speeds) :
            /\ speeds[k] >= 0
            /\ distances[k] >= 0
            /\ FeatureRow(k)[1] >= 0
            /\ FeatureRow(k)[2] >= 0

C10_Witness ==
    /\ pc = "predicted"
    /\ Len(gnss_points) = 3
    /\ Time(FixB(1)) < Time(FixA(1))
    /\ RawSpeed(2).value > MaxSpeedKmh * 10
    /\ speeds = <<0, 0>>
    /\ distances[1] > 0

====
